---- MODULE Spec2Model ----
(***************************************************************************)
(* The publish pipeline of the 1TamilMV Telegram bot: checkAndSendUpdates  *)
(* (src/src/index.js) driven by the /latest command and by the cron        *)
(* scheduler, over the JSON Seen-Set store (Database, FilmTracker), the    *)
(* listing scraper, the detail scraper and the Telegram publisher.         *)
(*                                                                         *)
(* A step of the model is what the single-threaded event loop executes     *)
(* between two awaited I/O completions; two triggered runs interleave at   *)
(* those points.                                                           *)
(*                                                                         *)
(* The synchronous functions of the scrapers (extractFilmId, parseTitle,   *)
(* parseDownloads in src/src/scraper/parser.js, and the body of            *)
(* scrapeListingPage) work on text, modelled as sequences of tokens; each  *)
(* has a specification of its own that calls it on every bounded input.    *)
(*                                                                         *)
(* The shared BrowserManager (src/src/scraper/browser.js) has a            *)
(* specification of its own, in which the scrapers of two overlapping runs *)
(* call createPage.                                                        *)
(***************************************************************************)
EXTENDS Integers, Sequences, FiniteSets, TLC

\* ---------------------------------------------------------------- bounds
NumIds == 2
MaxRuns == 2
MaxLinks == NumIds + 1
MaxCap == NumIds
MaxUrlLen == 5
MaxTitleLen == 4
MaxContentLen == 5
MaxPages == 2

\* ------------------------------------------------------------- universes
\* Text is a sequence of tokens. In a URL the tokens are the literal
\* "/topic/", decimal digits, "-", and "x" for any other character.
Digits == {"0", "1", "2", "3", "4", "5", "6", "7", "8", "9"}
Digit(n) == <<"1", "2", "3", "4", "5", "6", "7", "8", "9">>[n]
\* film ids are the digit strings extractFilmId returns; null is no string
Ids == {<<Digit(n)>> : n \in 1..NumIds}
NoId == <<>>
Runners == {"manual", "sched"}
\* hrefs of the topic anchors: one per topic, a second URL of topic 1, and a
\* URL without the /topic/<digits>- pattern
Urls == {<<"/topic/", Digit(n), "-">> : n \in 1..NumIds}
            \cup {<<"x", "/topic/", Digit(1), "-">>, <<"/topic/", "x">>}
\* an anchor: its href and whether its text content is non-empty
Anchors == Urls \X BOOLEAN
Listings == UNION {[1..n -> Anchors] : n \in 0..MaxLinks}
\* config.scraper.maxFilms, one less than the anchors a page can hold
maxFilms == NumIds
NoRun == [listing |-> <<NoId>>, evictedListed |-> FALSE]
NoResult == [success |-> FALSE, newFilmsCount |-> 0, error |-> FALSE]

VARIABLES
    films,            \* Database.data.films (in memory), ids in insertion order
    disk,             \* the films array last written to seen_films.json
    maxTrackedFilms,  \* config.storage.maxTrackedFilms
    pc,               \* per trigger: position inside checkAndSendUpdates
    newFilms,         \* per run: result of filterNewFilms
    details,          \* per run: filmsWithDetails
    idx,              \* per run: loop position in scrapeMultipleFilms / sendFilms
    sentCount,        \* per run: sendFilms.sentCount
    failedCount,      \* per run: sendFilms.failedCount
    snap,             \* per run: JSON snapshot handed to fs.writeFile by save()
    result,           \* per run: the result object of checkAndSendUpdates
    runs,             \* number of triggers so far
    \* ---- history of the current run of each trigger
    fetched,          \* the de-duplicated listing the run obtained
    listingFailed,    \* scrapeListingPage threw in this run
    emptyDl,          \* ids whose detail extraction gave an empty downloads list
    attempted,        \* ids passed to sendFilm
    pubBy,            \* ids whose sendFilm returned true
    appended,         \* ids pushed to data.films by this run
    overlapped,       \* another run was in flight during this run
    peerPub,          \* ids published by runs overlapping this run
    prev,             \* summary of the run completed last before this run started
    tried,            \* entries passed to scrapeFilmDetail, in call order
    attempts,         \* entries passed to sendFilm, in call order
    writeFailed,      \* save() threw inside addFilms or cleanup of this run
    \* ---- global history
    everPub,          \* ids published successfully by runs that have completed
    lastDone,         \* summary of the most recently completed run
    anyOverlap,       \* two runs have been in flight at the same time
    anyWriteFailed,   \* some fs.writeFile has failed
    \* ---- Database.save
    lastUpdate,       \* data.lastUpdate: the number of save() calls so far
    writes,           \* per run: fs.writeFile calls issued by its save() calls
    \* ---- BrowserManager (browser.js)
    browser,          \* this.browser: 0 for null, else the instance it refers to
    isInitialized,    \* this.isInitialized
    launches,         \* puppeteer.launch invocations so far; the n-th yields instance n
    live,             \* instances that puppeteer.launch has returned
    cp,               \* per caller: where its createPage call stands
    inst,             \* per caller: the instance its pending puppeteer.launch yields
    page,             \* per caller: the instance its page was created on, 0 for none
    calls,            \* per caller: createPage calls made
    \* ---- a call of one of the synchronous functions of the scrapers
    arg,              \* the argument of the call
    ret,              \* the value built so far, the return value at the end
    at                \* how far the call has got

locals == <<pc, newFilms, details, idx, sentCount, failedCount, snap, result>>
histRun == <<fetched, listingFailed, emptyDl, attempted, pubBy, appended,
             overlapped, peerPub, prev, tried, attempts>>
hist == <<histRun, writeFailed>>
ghist == <<everPub, lastDone, anyOverlap, anyWriteFailed>>
fin == <<result, lastDone, everPub>>
call == <<arg, ret, at>>
stamp == <<lastUpdate, writes>>
bm == <<browser, isInitialized, launches, live, cp, inst, page, calls>>
vars == <<films, disk, maxTrackedFilms, runs, locals, hist, ghist, stamp, call, bm>>

\* --------------------------------------------------------------- helpers
Range(s) == {s[i] : i \in 1..Len(s)}

Min(a, b) == IF a < b THEN a ELSE b

Max(a, b) == IF a > b THEN a ELSE b

Other(r) == CHOOSE o \in Runners : o # r

Active(r) == pc[r] \notin {"idle", "done"}

\* Array.prototype.filter
RECURSIVE Filter(_, _)
Filter(s, keep) ==
    IF s = <<>> THEN <<>>
    ELSE IF Head(s) \in keep THEN <<Head(s)>> \o Filter(Tail(s), keep)
    ELSE Filter(Tail(s), keep)

\* Array.prototype.slice(start) with one argument; -0 is 0
Slice(s, start) ==
    LET k == IF start < 0 THEN Max(Len(s) + start, 0) ELSE Min(start, Len(s))
    IN  SubSeq(s, k + 1, Len(s))

\* slice(0, end) ignoring its end
SliceTo_All(s, end) == s

\* Array.prototype.slice(0, end) for end >= 0
SliceTo(s, end) == SubSeq(s, 1, Min(end, Len(s)))

\* ------------------------------------------------------------- parser.js
\* \d in place of \d+
DigitRun_OneDigit(s) ==
    IF s = <<>> \/ Head(s) \notin Digits THEN <<>> ELSE <<Head(s)>>

\* the longest run of digits at the start of s: \d+ before a non-digit
RECURSIVE DigitRun(_)
DigitRun(s) ==
    IF s = <<>> \/ Head(s) \notin Digits THEN <<>>
    ELSE <<Head(s)>> \o DigitRun(Tail(s))

\* /\/topic\/(\d+)-/ matches at the start of s
MatchTopic(s) ==
    /\ s # <<>>
    /\ Head(s) = "/topic/"
    /\ LET d == DigitRun(Tail(s))
       IN  Len(d) > 0 /\ Len(s) > 1 + Len(d) /\ s[2 + Len(d)] = "-"

\* url.match(...): the leftmost match; match[1] or null
RECURSIVE extractFilmId(_)
extractFilmId(url) ==
    IF url = <<>> THEN NoId
    ELSE IF MatchTopic(url) THEN DigitRun(Tail(url))
    ELSE extractFilmId(Tail(url))

\* In a title the tokens are "(", ")", "[", "]", one whitespace character
\* " ", a run of exactly four digits, a quality indicator, or a word.
YearTokens == {"2023", "2024"}
QualityIndicators == {"4K", "1080p", "720p", "480p"}
NoYear == -1

parseInt(digits) == IF digits = "2023" THEN 2023 ELSE 2024

\* String.prototype.trim
RECURSIVE trimStart(_)
trimStart(s) == IF s # <<>> /\ Head(s) = " " THEN trimStart(Tail(s)) ELSE s

RECURSIVE trimEnd(_)
trimEnd(s) ==
    IF s # <<>> /\ s[Len(s)] = " " THEN trimEnd(SubSeq(s, 1, Len(s) - 1)) ELSE s

trim(s) == trimEnd(trimStart(s))

\* replace(/\s+/g, ' ') left out
collapseSpaces_Kept(s) == s

\* replace(/\s+/g, ' ')
RECURSIVE collapseSpaces(_)
collapseSpaces(s) ==
    IF s = <<>> THEN <<>>
    ELSE IF Len(s) >= 2 /\ s[1] = " " /\ s[2] = " " THEN collapseSpaces(Tail(s))
    ELSE <<Head(s)>> \o collapseSpaces(Tail(s))

\* titleText.match(/\((\d{4})\)/): index of the leftmost match from i on, or 0
RECURSIVE yearMatch(_, _)
yearMatch(titleText, i) ==
    IF i + 2 > Len(titleText) THEN 0
    ELSE IF /\ titleText[i] = "("
            /\ titleText[i + 1] \in YearTokens
            /\ titleText[i + 2] = ")"
         THEN i
    ELSE yearMatch(titleText, i + 1)

\* split(/\[|\(|4K|1080p|720p|480p/)[0]: the text before the first separator
RECURSIVE splitHead(_)
splitHead(s) ==
    IF s = <<>> \/ Head(s) \in {"[", "("} \cup QualityIndicators THEN <<>>
    ELSE <<Head(s)>> \o splitHead(Tail(s))

parseTitle(titleText) ==
    LET m == yearMatch(titleText, 1)
        year == IF m > 0 THEN parseInt(titleText[m + 1]) ELSE NoYear
        title == IF m > 0 THEN trim(SubSeq(titleText, 1, m - 1))
                 ELSE trim(splitHead(titleText))
    IN  [title |-> trim(collapseSpaces(title)), year |-> year]

\* In the content of a detail page the tokens are a caption <<size, quality>>
\* such as "1.2GB 1080p", a magnet link <<"magnet">>, a direct link
\* <<"direct">>, and <<"pad">>: 500 characters holding none of these. A link
\* is told from its other occurrences by match.index.
Window == 500
NoSize == "null"
NoRes == "null"
NoLink == <<>>
IsCaption(tok) == Len(tok) = 2

\* length of a token in characters
Width(tok) ==
    IF tok = <<"pad">> THEN 500
    ELSE IF tok = <<"magnet">> THEN 60
    ELSE IF tok = <<"direct">> THEN 30
    ELSE 12

\* character index at which token k starts (match.index for a link)
RECURSIVE Offset(_, _)
Offset(content, k) ==
    IF k = 1 THEN 0 ELSE Offset(content, k - 1) + Width(content[k - 1])

\* [...content.matchAll(regex)]: the token positions of the links of a kind
Matches(content, kind) ==
    LET RECURSIVE from(_)
        from(k) == IF k > Len(content) THEN <<>>
                   ELSE IF content[k] = kind THEN <<k>> \o from(k + 1)
                   ELSE from(k + 1)
    IN  from(1)

\* content.substring(Math.max(0, position - 500), position): the tokens that
\* lie in the window; a pad cut by the window start has nothing to match
precedingText(content, k) ==
    LET position == Offset(content, k)
        start == Max(0, position - Window)
        inside == {j \in 1..(k - 1) : Offset(content, j) >= start}
    IN  IF inside = {} THEN <<>>
        ELSE SubSeq(content, CHOOSE j \in inside : \A i \in inside : j <= i, k - 1)

\* text.match(/(\d+(?:\.\d+)?)\s*(GB|MB|TB)/i): the leftmost size, or null
RECURSIVE extractFileSize(_)
extractFileSize(text) ==
    IF text = <<>> THEN NoSize
    ELSE IF IsCaption(Head(text)) /\ Head(text)[1] # NoSize THEN Head(text)[1]
    ELSE extractFileSize(Tail(text))

resolutions == <<"4K", "2160p", "1080p", "720p", "480p", "360p">>

includes(text, res) == \E i \in 1..Len(text) : IsCaption(text[i]) /\ text[i][2] = res

\* the first entry of resolutions the text includes, 2160p reported as 4K
extractResolution(text) ==
    LET RECURSIVE try(_)
        try(i) == IF i > Len(resolutions) THEN NoRes
                  ELSE IF includes(text, resolutions[i])
                       THEN (IF resolutions[i] = "2160p" THEN "4K" ELSE resolutions[i])
                  ELSE try(i + 1)
    IN  try(1)

\* extractResolution(precedingText) without || 'Unknown'
resolutionOr_NoDefault(text) == extractResolution(text)

\* extractResolution(precedingText) || 'Unknown'
resolutionOr(text) ==
    IF extractResolution(text) = NoRes THEN "Unknown" ELSE extractResolution(text)

\* findIndex that finds nothing
findIndex_NotFound(downloads, fileSize, resolution) == 0

\* findIndex without the !d.directLink test
findIndex_AnyDirect(downloads, fileSize, resolution) ==
    LET found == {i \in 1..Len(downloads) :
                     /\ downloads[i].fileSize = fileSize
                     /\ downloads[i].resolution = resolution}
    IN  IF found = {} THEN 0 ELSE CHOOSE i \in found : \A j \in found : i <= j

\* downloads.findIndex(d => d.fileSize === fileSize && d.resolution ===
\* resolution && !d.directLink), 1-based; 0 for -1
findIndex(downloads, fileSize, resolution) ==
    LET found == {i \in 1..Len(downloads) :
                     /\ downloads[i].fileSize = fileSize
                     /\ downloads[i].resolution = resolution
                     /\ downloads[i].directLink = NoLink}
    IN  IF found = {} THEN 0 ELSE CHOOSE i \in found : \A j \in found : i <= j

\* ------------------------------------------------------ listingScraper.js
\* page.evaluate: the first maxFilms anchors with pairwise distinct hrefs
RECURSIVE uniqueUrls(_, _, _)
uniqueUrls(links, seen, room) ==
    IF links = <<>> \/ room = 0 THEN <<>>
    ELSE LET detailUrl == Head(links)[1]
             title == Head(links)[2]
         IN  IF detailUrl \in seen \/ ~title
             THEN uniqueUrls(Tail(links), seen, room)
             ELSE <<detailUrl>> \o
                  uniqueUrls(Tail(links), seen \cup {detailUrl}, room - 1)

\* map(extractFilmId) and filter(film !== null)
RECURSIVE filmsWithIds(_)
filmsWithIds(entries) ==
    IF entries = <<>> THEN <<>>
    ELSE IF extractFilmId(Head(entries)) = NoId THEN filmsWithIds(Tail(entries))
    ELSE <<extractFilmId(Head(entries))>> \o filmsWithIds(Tail(entries))

\* the seenIds loop without its seenIds test
uniqueFilms_NoSeenIds(ids, seenIds) == ids

\* the seenIds loop: first occurrence of every id
RECURSIVE uniqueFilms(_, _)
uniqueFilms(ids, seenIds) ==
    IF ids = <<>> THEN <<>>
    ELSE IF Head(ids) \in seenIds THEN uniqueFilms(Tail(ids), seenIds)
    ELSE <<Head(ids)>> \o uniqueFilms(Tail(ids), seenIds \cup {Head(ids)})

scrapeListingPage(links, cap) ==
    uniqueFilms(filmsWithIds(uniqueUrls(links, {}, cap)), {})

\* what scrapeListingPage can return over all listing pages
ListingResults == {scrapeListingPage(links, maxFilms) : links \in Listings}

\* getLatestFilms: a throw of scrapeListingPage becomes the empty list
getLatestFilms(ok, scraped) == IF ok THEN scraped ELSE <<>>

\* ------------------------------------------------------------ database.js
hasFilm(store, filmId) == \E i \in 1..Len(store) : store[i] = filmId

\* addFilms with unshift in place of push
addFilms_Unshift(store, sent) == sent \o store

addFilms(store, sent) == store \o sent

\* cleanup: this.data.films.slice(-maxEntries) when the array is longer
cleanup(store, maxEntries) ==
    IF Len(store) > maxEntries THEN Slice(store, 0 - maxEntries) ELSE store

\* ---------------------------------------------------------- filmTracker.js
markAsSeen(store, sent) == IF Len(sent) = 0 THEN store ELSE addFilms(store, sent)

\* filterNewFilms without the hasFilm test
filterNewFilms_NoSeenCheck(latest, store) == latest

filterNewFilms(latest, store) ==
    Filter(latest, {id \in Range(latest) : ~hasFilm(store, id)})

\* --------------------------------------------------------- detailScraper.js
\* scrapeFilmDetail: null (navigation, timeout, missing wrapper), a film
\* whose downloads list is empty, or a film with downloads
DetailOutcomes == {"null", "empty", "ok"}

\* the test of scrapeMultipleFilms without its downloads.length part
KeepDetail_NoLengthTest(out) == out # "null"

\* scrapeMultipleFilms: if (filmData && filmData.downloads.length > 0)
KeepDetail(out) == out = "ok"

\* ------------------------------------------------------------------ Init
\* no synchronous function is under way
\* the BrowserManager singleton after its constructor
NoBrowser ==
    /\ browser = 0
    /\ isInitialized = FALSE
    /\ launches = 0
    /\ live = {}
    /\ cp = [c \in Runners |-> "idle"]
    /\ inst = [c \in Runners |-> 0]
    /\ page = [c \in Runners |-> 0]
    /\ calls = [c \in Runners |-> 0]

NoCall ==
    /\ arg = <<>>
    /\ ret = <<>>
    /\ at = 0

Init ==
    /\ films = <<>>
    /\ disk = <<>>
    /\ maxTrackedFilms \in 0..MaxCap
    /\ pc = [r \in Runners |-> "idle"]
    /\ newFilms = [r \in Runners |-> <<>>]
    /\ details = [r \in Runners |-> <<>>]
    /\ idx = [r \in Runners |-> 0]
    /\ sentCount = [r \in Runners |-> 0]
    /\ failedCount = [r \in Runners |-> 0]
    /\ snap = [r \in Runners |-> <<>>]
    /\ result = [r \in Runners |-> NoResult]
    /\ runs = 0
    /\ fetched = [r \in Runners |-> <<>>]
    /\ listingFailed = [r \in Runners |-> FALSE]
    /\ emptyDl = [r \in Runners |-> {}]
    /\ attempted = [r \in Runners |-> {}]
    /\ pubBy = [r \in Runners |-> {}]
    /\ appended = [r \in Runners |-> <<>>]
    /\ overlapped = [r \in Runners |-> FALSE]
    /\ peerPub = [r \in Runners |-> {}]
    /\ prev = [r \in Runners |-> NoRun]
    /\ tried = [r \in Runners |-> <<>>]
    /\ attempts = [r \in Runners |-> <<>>]
    /\ writeFailed = [r \in Runners |-> FALSE]
    /\ everPub = {}
    /\ lastDone = NoRun
    /\ anyOverlap = FALSE
    /\ anyWriteFailed = FALSE
    /\ lastUpdate = 0
    /\ writes = [r \in Runners |-> 0]
    /\ NoCall
    /\ NoBrowser

\* a seen_films.json written by earlier runs of the bot: records with
\* pairwise distinct ids
Stores == {st \in UNION {[1..n -> Ids] : n \in 0..NumIds} :
              \A i, j \in 1..Len(st) : st[i] = st[j] => i = j}

\* the bot starts on an existing store file (Database.load)
InitLoaded ==
    /\ films \in Stores
    /\ disk = films
    /\ maxTrackedFilms \in 0..MaxCap
    /\ pc = [r \in Runners |-> "idle"]
    /\ newFilms = [r \in Runners |-> <<>>]
    /\ details = [r \in Runners |-> <<>>]
    /\ idx = [r \in Runners |-> 0]
    /\ sentCount = [r \in Runners |-> 0]
    /\ failedCount = [r \in Runners |-> 0]
    /\ snap = [r \in Runners |-> <<>>]
    /\ result = [r \in Runners |-> NoResult]
    /\ runs = 0
    /\ fetched = [r \in Runners |-> <<>>]
    /\ listingFailed = [r \in Runners |-> FALSE]
    /\ emptyDl = [r \in Runners |-> {}]
    /\ attempted = [r \in Runners |-> {}]
    /\ pubBy = [r \in Runners |-> {}]
    /\ appended = [r \in Runners |-> <<>>]
    /\ overlapped = [r \in Runners |-> FALSE]
    /\ peerPub = [r \in Runners |-> {}]
    /\ prev = [r \in Runners |-> NoRun]
    /\ tried = [r \in Runners |-> <<>>]
    /\ attempts = [r \in Runners |-> <<>>]
    /\ writeFailed = [r \in Runners |-> FALSE]
    /\ everPub = {}
    /\ lastDone = NoRun
    /\ anyOverlap = FALSE
    /\ anyWriteFailed = FALSE
    /\ lastUpdate = 0
    /\ writes = [r \in Runners |-> 0]
    /\ NoCall
    /\ NoBrowser

\* ----------------------------------------------------- checkAndSendUpdates
\* the run is fully successful so far: listing obtained, every new entry
\* extracted and published
FullRun(r) ==
    /\ ~listingFailed[r]
    /\ Len(details[r]) = Len(newFilms[r])
    /\ sentCount[r] = Len(details[r])

\* return result (from the try block or from the catch block)
Finish(r, res, listing, full) ==
    /\ pc' = [pc EXCEPT ![r] = "done"]
    /\ result' = [result EXCEPT ![r] = res]
    /\ everPub' = everPub \cup pubBy[r]
    /\ lastDone' = IF full /\ res.success /\ ~overlapped[r]
                   THEN [listing |-> listing,
                         evictedListed |-> ~(Range(listing) \subseteq Range(films'))]
                   ELSE NoRun

\* /latest (latestCommand) or a cron tick (runScheduledCheck) calls
\* checkAndSendUpdates, which suspends on getLatestFilms
Trigger(r) ==
    /\ pc[r] = "idle"
    /\ runs < MaxRuns
    /\ runs' = runs + 1
    /\ pc' = [pc EXCEPT ![r] = "listing"]
    /\ overlapped' = IF Active(Other(r)) THEN [x \in Runners |-> TRUE]
                     ELSE [overlapped EXCEPT ![r] = FALSE]
    /\ anyOverlap' = (anyOverlap \/ Active(Other(r)))
    /\ peerPub' = [peerPub EXCEPT ![r] = IF Active(Other(r)) THEN pubBy[Other(r)] ELSE {}]
    /\ prev' = [prev EXCEPT ![r] = IF Active(Other(r)) THEN NoRun ELSE lastDone]
    /\ UNCHANGED <<films, disk, maxTrackedFilms, newFilms, details, idx,
                   sentCount, failedCount, snap, result, fetched, listingFailed,
                   emptyDl, attempted, pubBy, appended, everPub, lastDone,
                   anyWriteFailed, tried, attempts, writeFailed>>
    /\ UNCHANGED <<call, bm>>
    /\ UNCHANGED stamp

\* Steps 1 and 2: the listing arrives (or its scrape throws), then the
\* synchronous filter against the Seen-Set
Discover(r) ==
    /\ pc[r] = "listing"
    /\ \E ok \in BOOLEAN, scraped \in ListingResults :
        LET latestFilms == getLatestFilms(ok, scraped)
            nf == filterNewFilms(latestFilms, films)
        IN  /\ fetched' = [fetched EXCEPT ![r] = latestFilms]
            /\ listingFailed' = [listingFailed EXCEPT ![r] = ~ok]
            /\ films' = films
            /\ IF Len(latestFilms) = 0 \/ Len(nf) = 0
               THEN /\ Finish(r, [success |-> TRUE, newFilmsCount |-> 0, error |-> FALSE],
                              latestFilms, ok)
                    /\ UNCHANGED <<newFilms, idx>>
               ELSE /\ newFilms' = [newFilms EXCEPT ![r] = nf]
                    /\ idx' = [idx EXCEPT ![r] = 1]
                    /\ pc' = [pc EXCEPT ![r] = "extract"]
                    /\ UNCHANGED fin
    /\ UNCHANGED <<disk, maxTrackedFilms, details, sentCount, failedCount,
                   snap, runs, emptyDl, attempted, pubBy, appended, overlapped,
                   peerPub, prev, anyOverlap, anyWriteFailed, tried, attempts,
                   writeFailed>>
    /\ UNCHANGED <<call, bm>>
    /\ UNCHANGED stamp

\* scrapeMultipleFilms if a null from scrapeFilmDetail were rethrown to the
\* catch block of checkAndSendUpdates
ExtractStep_AbortOnNull(r) ==
    /\ pc[r] = "extract"
    /\ \E out \in DetailOutcomes :
        LET film == newFilms[r][idx[r]]
        IN  /\ details' = [details EXCEPT ![r] =
                              IF KeepDetail(out) THEN Append(@, film) ELSE @]
            /\ emptyDl' = [emptyDl EXCEPT ![r] =
                              IF out = "empty" THEN @ \cup {film} ELSE @]
            /\ tried' = [tried EXCEPT ![r] = Append(@, film)]
            /\ films' = films
            /\ IF out = "null"
               THEN Finish(r, [success |-> FALSE, newFilmsCount |-> 0, error |-> TRUE],
                           fetched[r], FALSE)
               ELSE /\ pc' = [pc EXCEPT ![r] = "extractDelay"]
                    /\ UNCHANGED fin
    /\ UNCHANGED <<disk, maxTrackedFilms, newFilms, idx, sentCount,
                   failedCount, snap, runs, fetched, listingFailed,
                   attempted, pubBy, appended, overlapped, peerPub, prev,
                   attempts, writeFailed, anyOverlap, anyWriteFailed>>
    /\ UNCHANGED <<call, bm>>
    /\ UNCHANGED stamp

\* Step 3, one iteration of scrapeMultipleFilms up to its delay
ExtractStep(r) ==
    /\ pc[r] = "extract"
    /\ \E out \in DetailOutcomes :
        LET film == newFilms[r][idx[r]]
        IN  /\ details' = [details EXCEPT ![r] =
                              IF KeepDetail(out) THEN Append(@, film) ELSE @]
            /\ emptyDl' = [emptyDl EXCEPT ![r] =
                              IF out = "empty" THEN @ \cup {film} ELSE @]
            /\ tried' = [tried EXCEPT ![r] = Append(@, film)]
    /\ pc' = [pc EXCEPT ![r] = "extractDelay"]
    /\ UNCHANGED <<films, disk, maxTrackedFilms, newFilms, idx, sentCount,
                   failedCount, snap, result, runs, fetched, listingFailed,
                   attempted, pubBy, appended, overlapped, peerPub, prev,
                   attempts, writeFailed, ghist>>
    /\ UNCHANGED <<call, bm>>
    /\ UNCHANGED stamp

\* delay(2000) elapses; next iteration, or the loop ends and sendFilms starts
ExtractDelay(r) ==
    /\ pc[r] = "extractDelay"
    /\ films' = films
    /\ IF idx[r] < Len(newFilms[r])
       THEN /\ idx' = [idx EXCEPT ![r] = @ + 1]
            /\ pc' = [pc EXCEPT ![r] = "extract"]
            /\ UNCHANGED fin
       ELSE IF Len(details[r]) = 0
       THEN /\ Finish(r, [success |-> TRUE, newFilmsCount |-> 0, error |-> FALSE],
                      fetched[r], FALSE)
            /\ UNCHANGED idx
       ELSE /\ idx' = [idx EXCEPT ![r] = 1]
            /\ pc' = [pc EXCEPT ![r] = "publish"]
            /\ UNCHANGED fin
    /\ UNCHANGED <<disk, maxTrackedFilms, newFilms, details, sentCount,
                   failedCount, snap, runs, hist, anyOverlap, anyWriteFailed>>
    /\ UNCHANGED <<call, bm>>
    /\ UNCHANGED stamp

\* step 5 if markAsSeen stored the films one by one with addFilm, which saves
\* after each push
Commit_WritePerRecord(r, sc) ==
    IF sc > 0
    THEN LET sentFilms == SliceTo(details[r], sc)
         IN  /\ films' = markAsSeen(films, sentFilms)
             /\ snap' = [snap EXCEPT ![r] = films']
             /\ appended' = [appended EXCEPT ![r] = sentFilms]
             /\ lastUpdate' = lastUpdate + Len(sentFilms)
             /\ writes' = [writes EXCEPT ![r] = @ + Len(sentFilms)]
             /\ pc' = [pc EXCEPT ![r] = "addSave"]
             /\ UNCHANGED fin
    ELSE /\ films' = films
         /\ UNCHANGED <<snap, appended, stamp>>
         /\ Finish(r, [success |-> TRUE, newFilmsCount |-> sc, error |-> FALSE],
                   fetched[r], FALSE)

\* step 5 without the sentCount > 0 test
Commit_NoSentGuard(r, sc) ==
    LET sentFilms == SliceTo(details[r], sc)
    IN  /\ films' = addFilms(films, sentFilms)
        /\ snap' = [snap EXCEPT ![r] = films']
        /\ appended' = [appended EXCEPT ![r] = sentFilms]
        /\ lastUpdate' = lastUpdate + 1
        /\ writes' = [writes EXCEPT ![r] = @ + 1]
        /\ pc' = [pc EXCEPT ![r] = "addSave"]
        /\ UNCHANGED fin

\* Step 5 up to the first suspension: slice(0, sentCount), markAsSeen, and
\* the pushes of addFilms; save() has serialised the data and awaits the write
Commit(r, sc) ==
    IF sc > 0
    THEN LET sentFilms == SliceTo(details[r], sc)
         IN  /\ films' = markAsSeen(films, sentFilms)
             /\ snap' = [snap EXCEPT ![r] = films']
             /\ appended' = [appended EXCEPT ![r] = sentFilms]
             /\ lastUpdate' = lastUpdate + 1
             /\ writes' = [writes EXCEPT ![r] = @ + 1]
             /\ pc' = [pc EXCEPT ![r] = "addSave"]
             /\ UNCHANGED fin
    ELSE /\ films' = films
         /\ UNCHANGED <<snap, appended, stamp>>
         /\ Finish(r, [success |-> TRUE, newFilmsCount |-> sc, error |-> FALSE],
                   fetched[r], FALSE)

\* sendFilms if it waited only after a failed sendFilm
PublishStep_DelayOnFailureOnly(r) ==
    /\ pc[r] = "publish"
    /\ \E success \in BOOLEAN :
        LET film == details[r][idx[r]]
            sc == IF success THEN sentCount[r] + 1 ELSE sentCount[r]
            fc == IF success THEN failedCount[r] ELSE failedCount[r] + 1
        IN  /\ sentCount' = [sentCount EXCEPT ![r] = sc]
            /\ failedCount' = [failedCount EXCEPT ![r] = fc]
            /\ attempted' = [attempted EXCEPT ![r] = @ \cup {film}]
            /\ attempts' = [attempts EXCEPT ![r] = Append(@, film)]
            /\ pubBy' = [pubBy EXCEPT ![r] = IF success THEN @ \cup {film} ELSE @]
            /\ peerPub' = [peerPub EXCEPT ![Other(r)] =
                              IF success /\ Active(Other(r)) THEN @ \cup {film} ELSE @]
            /\ IF success /\ idx[r] < Len(details[r])
               THEN /\ idx' = [idx EXCEPT ![r] = @ + 1]
                    /\ UNCHANGED <<pc, films, snap, appended, fin, stamp>>
               ELSE IF sc < Len(details[r])
               THEN /\ pc' = [pc EXCEPT ![r] = "publishDelay"]
                    /\ UNCHANGED <<idx, films, snap, appended, fin, stamp>>
               ELSE /\ Commit(r, sc)
                    /\ UNCHANGED idx
    /\ UNCHANGED <<disk, maxTrackedFilms, newFilms, details, runs,
                   fetched, listingFailed, emptyDl, overlapped, prev, anyOverlap,
                   anyWriteFailed, tried, writeFailed>>
    /\ UNCHANGED <<call, bm>>

\* Step 4, one iteration of sendFilms: sendFilm, the counters, and either the
\* delay or (all sent so far, last film) the return into step 5
PublishStep(r) ==
    /\ pc[r] = "publish"
    /\ \E success \in BOOLEAN :
        LET film == details[r][idx[r]]
            sc == IF success THEN sentCount[r] + 1 ELSE sentCount[r]
            fc == IF success THEN failedCount[r] ELSE failedCount[r] + 1
        IN  /\ sentCount' = [sentCount EXCEPT ![r] = sc]
            /\ failedCount' = [failedCount EXCEPT ![r] = fc]
            /\ attempted' = [attempted EXCEPT ![r] = @ \cup {film}]
            /\ attempts' = [attempts EXCEPT ![r] = Append(@, film)]
            /\ pubBy' = [pubBy EXCEPT ![r] = IF success THEN @ \cup {film} ELSE @]
            /\ peerPub' = [peerPub EXCEPT ![Other(r)] =
                              IF success /\ Active(Other(r)) THEN @ \cup {film} ELSE @]
            /\ IF sc < Len(details[r])
               THEN /\ pc' = [pc EXCEPT ![r] = "publishDelay"]
                    /\ UNCHANGED <<films, snap, appended, fin, stamp>>
               ELSE Commit(r, sc)
    /\ UNCHANGED <<disk, maxTrackedFilms, newFilms, details, idx, runs,
                   fetched, listingFailed, emptyDl, overlapped, prev, anyOverlap,
                   anyWriteFailed, tried, writeFailed>>
    /\ UNCHANGED <<call, bm>>

\* sendFilms if its loop ended at the first delay
PublishDelay_NoNextFilm(r) ==
    /\ pc[r] = "publishDelay"
    /\ Commit(r, sentCount[r])
    /\ UNCHANGED <<disk, maxTrackedFilms, newFilms, details, idx, sentCount,
                   failedCount, runs, fetched, listingFailed, emptyDl, attempted,
                   pubBy, overlapped, peerPub, prev, anyOverlap,
                   anyWriteFailed, tried, attempts, writeFailed>>
    /\ UNCHANGED <<call, bm>>

\* delay(1500) elapses; next iteration, or sendFilms returns into step 5
PublishDelay(r) ==
    /\ pc[r] = "publishDelay"
    /\ IF idx[r] < Len(details[r])
       THEN /\ idx' = [idx EXCEPT ![r] = @ + 1]
            /\ pc' = [pc EXCEPT ![r] = "publish"]
            /\ UNCHANGED <<films, snap, appended, fin, stamp>>
       ELSE /\ Commit(r, sentCount[r])
            /\ UNCHANGED idx
    /\ UNCHANGED <<disk, maxTrackedFilms, newFilms, details, sentCount,
                   failedCount, runs, fetched, listingFailed, emptyDl, attempted,
                   pubBy, overlapped, peerPub, prev, anyOverlap,
                   anyWriteFailed, tried, attempts, writeFailed>>
    /\ UNCHANGED <<call, bm>>

\* fs.writeFile resolves or rejects
WriteOutcomes == BOOLEAN

\* save() swallowing the write error instead of rethrowing it
Thrown_Swallowed(r) ==
    /\ anyWriteFailed' = TRUE
    /\ writeFailed' = [writeFailed EXCEPT ![r] = TRUE]
    /\ UNCHANGED <<films, disk, snap, stamp>>
    /\ Finish(r, [success |-> TRUE, newFilmsCount |-> sentCount[r], error |-> FALSE],
              fetched[r], FALSE)

\* the catch block if newFilmsCount had been assigned before the writes
Thrown_KeepsCount(r) ==
    /\ anyWriteFailed' = TRUE
    /\ writeFailed' = [writeFailed EXCEPT ![r] = TRUE]
    /\ UNCHANGED <<films, disk, snap, stamp>>
    /\ Finish(r, [success |-> FALSE, newFilmsCount |-> sentCount[r], error |-> TRUE],
              fetched[r], FALSE)

\* the catch block of checkAndSendUpdates after save() rethrew
Thrown(r) ==
    /\ anyWriteFailed' = TRUE
    /\ writeFailed' = [writeFailed EXCEPT ![r] = TRUE]
    /\ UNCHANGED <<films, disk, snap, stamp>>
    /\ Finish(r, [success |-> FALSE, newFilmsCount |-> 0, error |-> TRUE],
              fetched[r], FALSE)

\* the write of addFilms completes; then cleanup(maxTrackedFilms) up to its
\* own save, or straight to the result when nothing is to be pruned
AddSave(r) ==
    /\ pc[r] = "addSave"
    /\ \E ok \in WriteOutcomes :
        IF ok
        THEN /\ disk' = snap[r]
             /\ films' = cleanup(films, maxTrackedFilms)
             /\ UNCHANGED <<anyWriteFailed, writeFailed>>
             /\ IF Len(films) > maxTrackedFilms
                THEN /\ snap' = [snap EXCEPT ![r] = films']
                     /\ lastUpdate' = lastUpdate + 1
                     /\ writes' = [writes EXCEPT ![r] = @ + 1]
                     /\ pc' = [pc EXCEPT ![r] = "cleanupSave"]
                     /\ UNCHANGED fin
                ELSE /\ UNCHANGED <<snap, stamp>>
                     /\ Finish(r, [success |-> TRUE, newFilmsCount |-> sentCount[r],
                                   error |-> FALSE], fetched[r], FullRun(r))
        ELSE Thrown(r)
    /\ UNCHANGED <<maxTrackedFilms, newFilms, details, idx, sentCount,
                   failedCount, runs, histRun, anyOverlap>>
    /\ UNCHANGED <<call, bm>>

\* the write of cleanup completes; result.success and newFilmsCount are set
CleanupSave(r) ==
    /\ pc[r] = "cleanupSave"
    /\ \E ok \in WriteOutcomes :
        IF ok
        THEN /\ disk' = snap[r]
             /\ UNCHANGED <<films, snap, anyWriteFailed, writeFailed, stamp>>
             /\ Finish(r, [success |-> TRUE, newFilmsCount |-> sentCount[r],
                           error |-> FALSE], fetched[r], FullRun(r))
        ELSE Thrown(r)
    /\ UNCHANGED <<maxTrackedFilms, newFilms, details, idx, sentCount,
                   failedCount, runs, histRun, anyOverlap>>
    /\ UNCHANGED <<call, bm>>

\* the caller (latestCommand / runScheduledCheck) consumes the result
Return(r) ==
    /\ pc[r] = "done"
    /\ pc' = [pc EXCEPT ![r] = "idle"]
    /\ newFilms' = [newFilms EXCEPT ![r] = <<>>]
    /\ details' = [details EXCEPT ![r] = <<>>]
    /\ idx' = [idx EXCEPT ![r] = 0]
    /\ sentCount' = [sentCount EXCEPT ![r] = 0]
    /\ failedCount' = [failedCount EXCEPT ![r] = 0]
    /\ snap' = [snap EXCEPT ![r] = <<>>]
    /\ result' = [result EXCEPT ![r] = NoResult]
    /\ fetched' = [fetched EXCEPT ![r] = <<>>]
    /\ listingFailed' = [listingFailed EXCEPT ![r] = FALSE]
    /\ emptyDl' = [emptyDl EXCEPT ![r] = {}]
    /\ attempted' = [attempted EXCEPT ![r] = {}]
    /\ pubBy' = [pubBy EXCEPT ![r] = {}]
    /\ appended' = [appended EXCEPT ![r] = <<>>]
    /\ overlapped' = [overlapped EXCEPT ![r] = FALSE]
    /\ peerPub' = [peerPub EXCEPT ![r] = {}]
    /\ prev' = [prev EXCEPT ![r] = NoRun]
    /\ tried' = [tried EXCEPT ![r] = <<>>]
    /\ attempts' = [attempts EXCEPT ![r] = <<>>]
    /\ writeFailed' = [writeFailed EXCEPT ![r] = FALSE]
    /\ writes' = [writes EXCEPT ![r] = 0]
    /\ UNCHANGED <<films, disk, maxTrackedFilms, runs, ghist, lastUpdate>>
    /\ UNCHANGED <<call, bm>>

\* a trigger that arrives only while no run is in flight and the caller of
\* the previous run has consumed its result
TriggerSeq(r) == pc[Other(r)] = "idle" /\ Trigger(r)

Next ==
    \E r \in Runners :
        \/ Trigger(r)
        \/ Discover(r)
        \/ ExtractStep(r)
        \/ ExtractDelay(r)
        \/ PublishStep(r)
        \/ PublishDelay(r)
        \/ AddSave(r)
        \/ CleanupSave(r)
        \/ Return(r)

NextSeq ==
    \E r \in Runners :
        \/ TriggerSeq(r)
        \/ Discover(r)
        \/ ExtractStep(r)
        \/ ExtractDelay(r)
        \/ PublishStep(r)
        \/ PublishDelay(r)
        \/ AddSave(r)
        \/ CleanupSave(r)
        \/ Return(r)

\* the first trigger after start-up
TriggerOne(r) == runs = 0 /\ Trigger(r)

NextOne ==
    \E r \in Runners :
        \/ TriggerOne(r)
        \/ Discover(r)
        \/ ExtractStep(r)
        \/ ExtractDelay(r)
        \/ PublishStep(r)
        \/ PublishDelay(r)
        \/ AddSave(r)
        \/ CleanupSave(r)
        \/ Return(r)

\* triggers may arrive at any time
Spec == Init /\ [][Next]_vars

\* triggers arrive only between runs
SpecSeq == Init /\ [][NextSeq]_vars

\* one run on a store left by earlier runs
SpecOne == InitLoaded /\ [][NextOne]_vars

\* every awaited operation of an invocation settles: the page loads run
\* under a timeout, the delays are timers, sendFilm and writeFile resolve or
\* reject
Progress(r) ==
    \/ Discover(r)
    \/ ExtractStep(r)
    \/ ExtractDelay(r)
    \/ PublishStep(r)
    \/ PublishDelay(r)
    \/ AddSave(r)
    \/ CleanupSave(r)

\* one run whose awaited operations all settle
SpecOneLive == InitLoaded /\ [][NextOne]_vars /\ \A r \in Runners : WF_vars(Progress(r))

\* ------------------------------------------- the synchronous functions
\* the pipeline before any trigger
Quiet ==
    /\ films = <<>>
    /\ disk = <<>>
    /\ maxTrackedFilms = MaxCap
    /\ pc = [r \in Runners |-> "idle"]
    /\ newFilms = [r \in Runners |-> <<>>]
    /\ details = [r \in Runners |-> <<>>]
    /\ idx = [r \in Runners |-> 0]
    /\ sentCount = [r \in Runners |-> 0]
    /\ failedCount = [r \in Runners |-> 0]
    /\ snap = [r \in Runners |-> <<>>]
    /\ result = [r \in Runners |-> NoResult]
    /\ runs = 0
    /\ fetched = [r \in Runners |-> <<>>]
    /\ listingFailed = [r \in Runners |-> FALSE]
    /\ emptyDl = [r \in Runners |-> {}]
    /\ attempted = [r \in Runners |-> {}]
    /\ pubBy = [r \in Runners |-> {}]
    /\ appended = [r \in Runners |-> <<>>]
    /\ overlapped = [r \in Runners |-> FALSE]
    /\ peerPub = [r \in Runners |-> {}]
    /\ prev = [r \in Runners |-> NoRun]
    /\ tried = [r \in Runners |-> <<>>]
    /\ attempts = [r \in Runners |-> <<>>]
    /\ writeFailed = [r \in Runners |-> FALSE]
    /\ everPub = {}
    /\ lastDone = NoRun
    /\ anyOverlap = FALSE
    /\ anyWriteFailed = FALSE
    /\ lastUpdate = 0
    /\ writes = [r \in Runners |-> 0]
    /\ NoBrowser

pipeline == <<films, disk, maxTrackedFilms, runs, locals, hist, ghist, stamp>>

\* ---- scrapeListingPage on a loaded listing page, for any maxFilms
InitListing ==
    /\ Quiet
    /\ arg \in [links : Listings, maxFilms : 0..MaxLinks]
    /\ ret = <<>>
    /\ at = 0

CallScrapeListingPage ==
    /\ at = 0
    /\ ret' = scrapeListingPage(arg.links, arg.maxFilms)
    /\ at' = 1
    /\ UNCHANGED <<arg, pipeline, bm>>

NextListing == CallScrapeListingPage

SpecListing == InitListing /\ [][NextListing]_vars

\* ---- extractFilmId on any URL text
UrlChars == {"/topic/", "1", "2", "-", "x"}
UrlTexts == UNION {[1..n -> UrlChars] : n \in 0..MaxUrlLen}

InitId ==
    /\ Quiet
    /\ arg \in UrlTexts
    /\ ret = <<>>
    /\ at = 0

CallExtractFilmId ==
    /\ at = 0
    /\ ret' = extractFilmId(arg)
    /\ at' = 1
    /\ UNCHANGED <<arg, pipeline, bm>>

NextId == CallExtractFilmId

SpecId == InitId /\ [][NextId]_vars

\* ---- parseTitle on any title text
TitleChars == {"w", " ", "(", ")", "[", "2024", "1080p"}
TitleExamples ==
    {<<"Movie", " ", "Name", " ", "(", "2024", ")", " ", "[", "Tamil", "]", " ", "1080p">>,
     <<"Movie", " ", "Name", " ", "[", "Tamil", "]", " ", "1080p">>,
     <<"w", " ", " ", "w", "(", "2023", ")", "(", "2024", ")">>,
     <<" ", "w", " ", " ", "w", " ", "720p", "(", "2024", ")">>}
TitleTexts == UNION {[1..n -> TitleChars] : n \in 0..MaxTitleLen} \cup TitleExamples

InitTitle ==
    /\ Quiet
    /\ arg \in TitleTexts
    /\ ret = <<>>
    /\ at = 0

CallParseTitle ==
    /\ at = 0
    /\ ret' = parseTitle(arg)
    /\ at' = 1
    /\ UNCHANGED <<arg, pipeline, bm>>

NextTitle == CallParseTitle

SpecTitle == InitTitle /\ [][NextTitle]_vars

\* ---- parseDownloads on any content, one link per step
Captions == {"1.2GB", "700MB"} \X {"1080p", "720p"}
ContentTokens == Captions \cup {<<"magnet">>, <<"direct">>, <<"pad">>}
Contents == UNION {[1..n -> ContentTokens] : n \in 0..MaxContentLen}

magnetMatches == Matches(arg, <<"magnet">>)
directMatches == Matches(arg, <<"direct">>)

InitDownloads ==
    /\ Quiet
    /\ arg \in Contents
    /\ ret = <<>>
    /\ at = 0

\* one iteration of the loop over magnetMatches
ProcessMagnet ==
    /\ at < Len(magnetMatches)
    /\ LET position == magnetMatches[at + 1]
           text == precedingText(arg, position)
       IN  ret' = Append(ret, [resolution |-> resolutionOr(text),
                               fileSize |-> extractFileSize(text),
                               magnetLink |-> <<"magnet", position>>,
                               directLink |-> NoLink])
    /\ at' = at + 1
    /\ UNCHANGED <<arg, pipeline, bm>>

\* one iteration of the loop over directMatches
ProcessDirect ==
    /\ at >= Len(magnetMatches)
    /\ at < Len(magnetMatches) + Len(directMatches)
    /\ LET position == directMatches[at - Len(magnetMatches) + 1]
           text == precedingText(arg, position)
           fileSize == extractFileSize(text)
           resolution == resolutionOr(text)
           existingIndex == findIndex(ret, fileSize, resolution)
       IN  ret' = IF existingIndex > 0
                  THEN [ret EXCEPT ![existingIndex].directLink = <<"direct", position>>]
                  ELSE Append(ret, [resolution |-> resolution,
                                    fileSize |-> fileSize,
                                    magnetLink |-> NoLink,
                                    directLink |-> <<"direct", position>>])
    /\ at' = at + 1
    /\ UNCHANGED <<arg, pipeline, bm>>

NextDownloads == ProcessMagnet \/ ProcessDirect

SpecDownloads == InitDownloads /\ [][NextDownloads]_vars

\* ---- parseDownloads on content whose captions lack a size or a quality,
\* or name the quality 2160p or 4K
PartialCaptions == {<<"1.2GB", "2160p">>, <<"700MB", NoRes>>, <<NoSize, "4K">>}
PartialTokens == PartialCaptions \cup {<<"magnet">>, <<"direct">>, <<"pad">>}
PartialContents == UNION {[1..n -> PartialTokens] : n \in 0..MaxContentLen}

InitPartial ==
    /\ Quiet
    /\ arg \in PartialContents
    /\ ret = <<>>
    /\ at = 0

SpecPartial == InitPartial /\ [][NextDownloads]_vars

\* ------------------------------------------------------------ browser.js
\* The callers are the scrapers of two overlapping runs; each awaits its
\* createPage call before it makes the next one.
InitBrowser ==
    /\ Quiet
    /\ NoCall

\* createPage up to its first suspension: with this.browser null it enters
\* launch(), whose test of isInitialized && browser fails, and awaits
\* puppeteer.launch; otherwise it awaits this.browser.newPage()
CreatePage(c) ==
    /\ cp[c] = "idle"
    /\ calls[c] < MaxPages
    /\ calls' = [calls EXCEPT ![c] = @ + 1]
    /\ IF browser = 0
       THEN IF isInitialized /\ browser # 0
            THEN /\ page' = [page EXCEPT ![c] = browser]
                 /\ cp' = [cp EXCEPT ![c] = "newPage"]
                 /\ UNCHANGED <<launches, inst>>
            ELSE /\ launches' = launches + 1
                 /\ inst' = [inst EXCEPT ![c] = launches']
                 /\ cp' = [cp EXCEPT ![c] = "launch"]
                 /\ UNCHANGED page
       ELSE /\ page' = [page EXCEPT ![c] = browser]
            /\ cp' = [cp EXCEPT ![c] = "newPage"]
            /\ UNCHANGED <<launches, inst>>
    /\ UNCHANGED <<browser, isInitialized, live>>
    /\ UNCHANGED <<call, pipeline>>

\* puppeteer.launch settles: launch() stores the instance, sets isInitialized
\* and returns, and createPage goes on to this.browser.newPage(); or launch()
\* rethrows and createPage throws to its caller
LaunchSettles(c) ==
    /\ cp[c] = "launch"
    /\ \E ok \in BOOLEAN :
        IF ok
        THEN /\ browser' = inst[c]
             /\ isInitialized' = TRUE
             /\ live' = live \cup {inst[c]}
             /\ page' = [page EXCEPT ![c] = browser']
             /\ cp' = [cp EXCEPT ![c] = "newPage"]
        ELSE /\ cp' = [cp EXCEPT ![c] = "idle"]
             /\ UNCHANGED <<browser, isInitialized, live, page>>
    /\ inst' = [inst EXCEPT ![c] = 0]
    /\ UNCHANGED <<launches, calls>>
    /\ UNCHANGED <<call, pipeline>>

\* newPage and the page settings settle: the caller holds the page, or
\* createPage rethrows
NewPageSettles(c) ==
    /\ cp[c] = "newPage"
    /\ \E ok \in BOOLEAN :
        IF ok
        THEN /\ cp' = [cp EXCEPT ![c] = "held"]
             /\ UNCHANGED page
        ELSE /\ cp' = [cp EXCEPT ![c] = "idle"]
             /\ page' = [page EXCEPT ![c] = 0]
    /\ UNCHANGED <<browser, isInitialized, launches, live, inst, calls>>
    /\ UNCHANGED <<call, pipeline>>

\* the scraper's finally block: closePage(page)
ClosePage(c) ==
    /\ cp[c] = "held"
    /\ cp' = [cp EXCEPT ![c] = "idle"]
    /\ page' = [page EXCEPT ![c] = 0]
    /\ UNCHANGED <<browser, isInitialized, launches, live, inst, calls>>
    /\ UNCHANGED <<call, pipeline>>

NextBrowser ==
    \E c \in Runners :
        \/ CreatePage(c)
        \/ LaunchSettles(c)
        \/ NewPageSettles(c)
        \/ ClosePage(c)

SpecBrowser == InitBrowser /\ [][NextBrowser]_vars

\* ================================================================ claims
\* the N most recently inserted records of a store, in insertion order
LastN(store, n) == SubSeq(store, Len(store) - n + 1, Len(store))

\* C1: in a run that returns success, the ids appended to the Seen-Set are
\* exactly the ids whose publish succeeded.
C1_CommitsExactlyPublished ==
    \A r \in Runners :
        (pc[r] = "done" /\ result[r].success) => Range(appended[r]) = pubBy[r]

\* C2: across non-overlapping runs whose store writes all succeed, a run never
\* publishes an id that an earlier run has published.
C2_NoRepublish ==
    (~anyOverlap /\ ~anyWriteFailed) =>
        \A r \in Runners : Active(r) => pubBy[r] \cap everPub = {}

\* the second run of C3: it started after a fully successful run completed,
\* ran alone, and obtained the same listing
SecondRunOnSameListing(r) ==
    /\ pc[r] \notin {"idle", "listing"}
    /\ ~overlapped[r]
    /\ prev[r] # NoRun
    /\ ~listingFailed[r]
    /\ fetched[r] = prev[r].listing

C4_AtMostOneRun == ~(Active("manual") /\ Active("sched"))

\* C5: no id is published by two runs whose executions overlap.
C5_NoDoublePublish ==
    \A r \in Runners : pubBy[r] \cap peerPub[r] = {}

\* C6: a film whose extraction gave an empty downloads list is never passed to
\* sendFilm and never appended to the Seen-Set by its run.
C6_EmptyNeverPublished ==
    \A r \in Runners :
        /\ emptyDl[r] \cap attempted[r] = {}
        /\ emptyDl[r] \cap Range(appended[r]) = {}

C6_Witness ==
    \E r \in Runners :
        /\ pc[r] = "done"
        /\ emptyDl[r] # {}
        /\ pubBy[r] # {}
        /\ appended[r] # <<>>

\* C7: when the write of addFilms has succeeded and cleanup(N) runs on a store
\* of N+k records, the store is left with the N most recently inserted records
\* in insertion order.
C7_EvictionKeepsNewest ==
    [][\A r \in Runners :
          (/\ pc[r] = "addSave"
           /\ pc'[r] \in {"cleanupSave", "done"}
           /\ ~anyWriteFailed'
           /\ Len(films) >= maxTrackedFilms)
          => films' = LastN(films, maxTrackedFilms)]_vars

\* C8: at the moment a run completes and returns success, the Seen-Set holds
\* at most maxTrackedFilms records.
C8_CapRespected ==
    [][\A r \in Runners :
          (pc[r] # "done" /\ pc'[r] = "done" /\ result'[r].success)
          => Len(films') <= maxTrackedFilms']_vars

\* C9: no two records of the Seen-Set have the same id.
C9_UniqueIds ==
    \A i, j \in 1..Len(films) : films[i] = films[j] => i = j

\* C10: a run whose listing fetch failed returns success false with an error.
C10_ListingFailureReported ==
    \A r \in Runners :
        (pc[r] = "done" /\ listingFailed[r]) =>
            (~result[r].success /\ result[r].error)

\* C11: a run in which a store write failed (save() threw inside addFilms or
\* cleanup) returns success false and carries the error.
C11_WriteFailurePropagates ==
    \A r \in Runners :
        (pc[r] = "done" /\ writeFailed[r]) =>
            (~result[r].success /\ result[r].error)

\* the write of cleanup failed after the write of addFilms had succeeded
C11_Witness ==
    \E r \in Runners :
        /\ pc[r] = "done"
        /\ writeFailed[r]
        /\ pubBy[r] # {}
        /\ Len(films) < Len(disk)
        /\ ~result[r].success

\* the counts a run result has to carry
CountFields == {"discovered", "filteredNew", "extracted", "published", "failed"}

\* C12: every run result carries the counts of discovered, filtered-new,
\* extracted, published and failed entries, and the published count equals
\* the number of successful publishes of the run.
C12_CountsReported ==
    \A r \in Runners :
        pc[r] = "done" =>
            /\ result[r].newFilmsCount = sentCount[r]
            /\ CountFields \subseteq DOMAIN result[r]

\* the run has left sendFilms (or never entered it)
PublishOver(r) == pc[r] \in {"addSave", "cleanupSave", "done"}

\* C13: the publish attempts of a run are the extracted records, each once, in
\* discovery order, whatever the outcome of earlier attempts; when sendFilms
\* has returned, sentCount + failedCount is the number of extracted records.
C13_EveryExtractedAttemptedOnce ==
    \A r \in Runners :
        /\ \E k \in 0..Len(details[r]) : attempts[r] = SubSeq(details[r], 1, k)
        /\ PublishOver(r) =>
              /\ attempts[r] = details[r]
              /\ sentCount[r] + failedCount[r] = Len(details[r])

\* the first attempt failed and the second record was still attempted
C13_Witness ==
    \E r \in Runners :
        /\ pc[r] = "done"
        /\ Len(details[r]) = 2
        /\ details[r][1] \notin pubBy[r]
        /\ details[r][2] \in pubBy[r]
        /\ failedCount[r] = 1

\* the run has left scrapeMultipleFilms
ExtractOver(r) == pc[r] \in {"publish", "publishDelay", "addSave", "cleanupSave"}

\* C14: a detail page that fails or yields no downloads skips only its entry:
\* every new entry is passed to scrapeFilmDetail in order, and the run result
\* is a failure only when a store write failed.
C14_DetailFailureSkipsOnlyEntry ==
    \A r \in Runners :
        /\ \E k \in 0..Len(newFilms[r]) : tried[r] = SubSeq(newFilms[r], 1, k)
        /\ (ExtractOver(r) \/ pc[r] = "done") => tried[r] = newFilms[r]
        /\ (pc[r] = "done" /\ ~writeFailed[r]) =>
              (result[r].success /\ ~result[r].error)

\* the first new entry was skipped, the second was extracted and published
C14_Witness ==
    \E r \in Runners :
        /\ pc[r] = "done"
        /\ Len(newFilms[r]) = 2
        /\ details[r] = <<newFilms[r][2]>>
        /\ pubBy[r] = {newFilms[r][2]}
        /\ result[r].success

\* the listing entries of a page: the anchors that have a title
IsEntry(links, k) == links[k][2]

EntryId(links, k) == extractFilmId(links[k][1])

\* position of the first entry of the page that carries the id
FirstEntry(links, id) ==
    CHOOSE k \in 1..Len(links) :
        /\ IsEntry(links, k) /\ EntryId(links, k) = id
        /\ \A m \in 1..(k - 1) : ~(IsEntry(links, m) /\ EntryId(links, m) = id)

\* C15: scrapeListingPage returns pairwise distinct ids, each the id of an
\* entry of the page, ordered by their first occurrence on the page, at most
\* maxFilms of them, never the null id; on a page of at most maxFilms anchors
\* it returns every id the entries carry.
C15_DiscoverDistinctCapped ==
    at = 1 =>
        LET links == arg.links
            entryIds == {EntryId(links, k) : k \in {m \in 1..Len(links) : IsEntry(links, m)}}
        IN  /\ \A i, j \in 1..Len(ret) : ret[i] = ret[j] => i = j
            /\ Len(ret) <= arg.maxFilms
            /\ NoId \notin Range(ret)
            /\ Range(ret) \subseteq entryIds
            /\ \A i, j \in 1..Len(ret) :
                  i < j => FirstEntry(links, ret[i]) < FirstEntry(links, ret[j])
            /\ Len(links) <= arg.maxFilms => Range(ret) = entryIds \ {NoId}

\* an entry without id before two entries of one topic under different URLs
C15_Witness ==
    /\ at = 1
    /\ Len(arg.links) = 3
    /\ arg.maxFilms = 3
    /\ \A k \in 1..3 : IsEntry(arg.links, k)
    /\ EntryId(arg.links, 1) = NoId
    /\ EntryId(arg.links, 2) = EntryId(arg.links, 3)
    /\ arg.links[2][1] # arg.links[3][1]
    /\ ret = <<EntryId(arg.links, 2)>>

\* the numeric topic segments a URL embeds: <<i, j>> when "/topic/" is at i,
\* digits fill i+1..j and "-" follows
TopicSegments(url) ==
    {ij \in (1..Len(url)) \X (1..Len(url)) :
        /\ url[ij[1]] = "/topic/"
        /\ ij[1] < ij[2]
        /\ \A k \in (ij[1] + 1)..ij[2] : url[k] \in Digits
        /\ ij[2] < Len(url)
        /\ url[ij[2] + 1] = "-"}

\* C17: extractFilmId returns the digit string of the (first) numeric topic
\* segment the URL embeds, so that URLs embedding the same segment get the
\* same id and URLs embedding different segments get different ids, and it
\* returns null for a URL without the /topic/<digits>- pattern.
C17_ResolveIdBySegment ==
    at = 1 =>
        IF TopicSegments(arg) = {} THEN ret = NoId
        ELSE \E ij \in TopicSegments(arg) :
                /\ \A o \in TopicSegments(arg) : ij[1] <= o[1]
                /\ ret = SubSeq(arg, ij[1] + 1, ij[2])
                /\ ret # NoId

\* a two-digit topic number behind a path prefix
C17_Witness ==
    /\ at = 1
    /\ arg = <<"x", "/topic/", "1", "2", "-">>
    /\ ret = <<"1", "2">>

\* positions of the parenthesized 4-digit groups of a title
YearGroups(t) ==
    {i \in 1..Len(t) :
        i + 2 <= Len(t) /\ t[i] = "(" /\ t[i + 1] \in YearTokens /\ t[i + 2] = ")"}

\* positions of the bracket and quality markers of a title
Markers(t) == {i \in 1..Len(t) : t[i] \in {"[", "("} \cup QualityIndicators}

\* the text before the first position of a set (all of it when the set is empty)
Before(t, ps) ==
    SubSeq(t, 1, (CHOOSE i \in ps \cup {Len(t) + 1} :
                     \A j \in ps \cup {Len(t) + 1} : i <= j) - 1)

\* the tokens of a text that are not whitespace, in order
RECURSIVE Ink(_)
Ink(s) ==
    IF s = <<>> THEN <<>>
    ELSE IF Head(s) = " " THEN Ink(Tail(s))
    ELSE <<Head(s)>> \o Ink(Tail(s))

\* x is whitespace-normalized text y: same non-blank tokens, no blank at either
\* end, no two blanks in a row
NormalizedFrom(x, y) ==
    /\ Ink(x) = Ink(y)
    /\ x # <<>> => (x[1] # " " /\ x[Len(x)] # " ")
    /\ \A i \in 1..(Len(x) - 1) : ~(x[i] = " " /\ x[i + 1] = " ")

\* C18: parseTitle returns the year of the first parenthesized 4-digit group
\* (null without one) and as title the whitespace-normalized text before that
\* group, or before the first bracket or quality marker when there is no such
\* group; the two example titles give "Movie Name" with 2024 and with null.
C18_ParseTitle ==
    at = 1 =>
        /\ IF YearGroups(arg) # {}
           THEN /\ \E i \in YearGroups(arg) :
                     /\ \A j \in YearGroups(arg) : i <= j
                     /\ ret.year = parseInt(arg[i + 1])
                /\ NormalizedFrom(ret.title, Before(arg, YearGroups(arg)))
           ELSE /\ ret.year = NoYear
                /\ NormalizedFrom(ret.title, Before(arg, Markers(arg)))
        /\ arg = <<"Movie", " ", "Name", " ", "(", "2024", ")", " ", "[", "Tamil", "]", " ", "1080p">>
              => ret = [title |-> <<"Movie", " ", "Name">>, year |-> 2024]
        /\ arg = <<"Movie", " ", "Name", " ", "[", "Tamil", "]", " ", "1080p">>
              => ret = [title |-> <<"Movie", " ", "Name">>, year |-> NoYear]

\* a title with blanks to normalize, a quality marker before the year, a year
C18_Witness ==
    /\ at = 1
    /\ arg = <<" ", "w", " ", " ", "w", " ", "720p", "(", "2024", ")">>
    /\ ret = [title |-> <<"w", " ", "w", " ", "720p">>, year |-> 2024]

\* parseDownloads has processed every link of the content
Parsed == at = Len(magnetMatches) + Len(directMatches)

\* the (resolution, fileSize) pair the look-back window of the link at k yields
PairAt(k) ==
    <<resolutionOr(precedingText(arg, k)), extractFileSize(precedingText(arg, k))>>

PairOf(d) == <<d.resolution, d.fileSize>>

\* C16: for content with one magnet link and one direct link whose look-back
\* windows yield the same (resolution, fileSize) pair, parseDownloads returns a
\* single variant holding both links, whichever link comes first.
C16_MergeIndependentOfOrder ==
    (/\ Parsed
     /\ Len(magnetMatches) = 1
     /\ Len(directMatches) = 1
     /\ PairAt(magnetMatches[1]) = PairAt(directMatches[1]))
    => /\ Len(ret) = 1
       /\ ret[1].magnetLink = <<"magnet", magnetMatches[1]>>
       /\ ret[1].directLink = <<"direct", directMatches[1]>>

\* the direct link comes first, each link behind its own copy of the caption,
\* the two windows apart
C16_Witness ==
    /\ Parsed
    /\ Len(arg) = 5
    /\ IsCaption(arg[1]) /\ arg[2] = <<"direct">> /\ arg[3] = <<"pad">>
    /\ arg[4] = arg[1] /\ arg[5] = <<"magnet">>
    /\ Len(ret) = 1
    /\ ret[1].fileSize = arg[1][1]
    /\ ret[1].magnetLink # NoLink
    /\ ret[1].directLink # NoLink

\* the token position of the link that created a variant
CreatedAt(d) == IF d.magnetLink # NoLink THEN d.magnetLink[2] ELSE d.directLink[2]

\* the link at k stands right behind its own caption, and every other caption
\* of its look-back window is the caption of an earlier link
OwnCaptionAmongVariants(k) ==
    /\ k >= 2
    /\ IsCaption(arg[k - 1])
    /\ \A j \in 1..(k - 2) :
          (IsCaption(arg[j]) /\ Offset(arg, j) >= Offset(arg, k) - Window)
              => arg[j + 1] \in {<<"magnet">>, <<"direct">>}

\* C19: a variant gets the file size and the resolution of the caption of the
\* link that created it, also when the captions of earlier variants lie in
\* the same look-back window.
C19_OwnCaptionOnly ==
    \A i \in 1..Len(ret) :
        OwnCaptionAmongVariants(CreatedAt(ret[i])) =>
            /\ ret[i].fileSize = arg[CreatedAt(ret[i]) - 1][1]
            /\ ret[i].resolution = arg[CreatedAt(ret[i]) - 1][2]

\* the variants a direct link can be attached to
Free(downloads, pair) ==
    {i \in 1..Len(downloads) :
        PairOf(downloads[i]) = pair /\ downloads[i].directLink = NoLink}

\* C20: every magnet link appends a variant; a direct link goes to the
\* earliest variant with its (resolution, fileSize) pair and no direct link,
\* or else appends a variant; a direct link once set is never replaced; at the
\* end there are as many variants as magnet links plus unmatched direct
\* links, the magnet-created ones before the direct-only ones.
C20_FirstMatchAttach ==
    [][LET n == Len(ret)
           nm == Len(magnetMatches)
           k == IF at < nm THEN magnetMatches[at + 1] ELSE directMatches[at - nm + 1]
       IN  /\ (at' = at + 1 /\ at < nm) =>
                 /\ Len(ret') = n + 1
                 /\ SubSeq(ret', 1, n) = ret
                 /\ ret'[n + 1].magnetLink = <<"magnet", k>>
                 /\ ret'[n + 1].directLink = NoLink
           /\ (at' = at + 1 /\ at >= nm) =>
                 IF Free(ret, PairAt(k)) # {}
                 THEN \E e \in Free(ret, PairAt(k)) :
                         /\ \A o \in Free(ret, PairAt(k)) : e <= o
                         /\ ret' = [ret EXCEPT ![e].directLink = <<"direct", k>>]
                 ELSE /\ Len(ret') = n + 1
                      /\ SubSeq(ret', 1, n) = ret
                      /\ ret'[n + 1].magnetLink = NoLink
                      /\ ret'[n + 1].directLink = <<"direct", k>>
           /\ \A i \in 1..n :
                 ret[i].directLink # NoLink =>
                     (i <= Len(ret') /\ ret'[i].directLink = ret[i].directLink)
           /\ at' = nm + Len(directMatches) =>
                 LET directOnly == {i \in 1..Len(ret') : ret'[i].magnetLink = NoLink}
                     attached == {i \in 1..Len(ret') :
                                     /\ ret'[i].magnetLink # NoLink
                                     /\ ret'[i].directLink # NoLink}
                 IN  /\ Cardinality(directOnly) = Len(directMatches) - Cardinality(attached)
                     /\ Len(ret') = nm + Cardinality(directOnly)
                     /\ \A i \in 1..Len(ret') : i \in directOnly <=> i > nm
      ]_vars

\* a magnet link and two direct links behind one caption: the first direct
\* link is attached, the second finds no free variant and gets its own
C20_Witness ==
    /\ Parsed
    /\ Len(arg) = 4
    /\ IsCaption(arg[1])
    /\ arg[2] = <<"magnet">> /\ arg[3] = <<"direct">> /\ arg[4] = <<"direct">>
    /\ Len(ret) = 2
    /\ ret[1].magnetLink = <<"magnet", 2>> /\ ret[1].directLink = <<"direct", 3>>
    /\ ret[2].magnetLink = NoLink /\ ret[2].directLink = <<"direct", 4>>

\* the variants that hold the link of a kind found at token position k
Holding(kind, k) ==
    {i \in 1..Len(ret) :
        IF kind = "magnet" THEN ret[i].magnetLink = <<"magnet", k>>
        ELSE ret[i].directLink = <<"direct", k>>}

\* C21: every variant has a magnet link or a direct link and a resolution out
\* of 4K, 1080p, 720p, 480p, 360p, Unknown; when parseDownloads has finished,
\* every link of the content is in some variant, and a link whose window
\* yields no file size or no resolution is in a variant with fileSize null or
\* resolution Unknown.
C21_VariantsWellFormed ==
    /\ \A i \in 1..Len(ret) :
          /\ ret[i].magnetLink # NoLink \/ ret[i].directLink # NoLink
          /\ ret[i].resolution \in {"4K", "1080p", "720p", "480p", "360p", "Unknown"}
    /\ Parsed =>
          \A kind \in {"magnet", "direct"} :
              \A j \in 1..Len(Matches(arg, <<kind>>)) :
                  LET k == Matches(arg, <<kind>>)[j]
                      text == precedingText(arg, k)
                  IN  /\ Holding(kind, k) # {}
                      /\ \A i \in Holding(kind, k) :
                            /\ extractFileSize(text) = NoSize => ret[i].fileSize = NoSize
                            /\ extractResolution(text) = NoRes => ret[i].resolution = "Unknown"

\* a magnet link behind a 2160p caption, and a direct link with nothing in
\* its window
C21_Witness ==
    /\ Parsed
    /\ arg = <<<<"1.2GB", "2160p">>, <<"magnet">>, <<"pad">>, <<"direct">>>>
    /\ Len(ret) = 2
    /\ ret[1].resolution = "4K"
    /\ ret[2] = [resolution |-> "Unknown", fileSize |-> NoSize,
                 magnetLink |-> NoLink, directLink |-> <<"direct", 4>>]

\* the entries of a listing whose id is not in the store, in listing order
Unseen(listing, store) ==
    SelectSeq(listing, LAMBDA id : \A i \in 1..Len(store) : store[i] # id)

\* the run of r returned from the listing or the filter stage
EndedAtFilter(r) == pc[r] = "done" /\ newFilms[r] = <<>>

\* C22: while a run is in its extract or publish stage, its filtered list is
\* exactly the discovered entries whose id is not in the Seen-Set, in
\* discovery order, and is not empty; a run that ended at the filter has
\* nothing unseen in its listing, returns success with zero new films, and has
\* made no detail fetch, no publish and no store write.
C22_FilterKeepsUnseen ==
    \A r \in Runners :
        /\ pc[r] \in {"extract", "extractDelay", "publish", "publishDelay"} =>
              /\ newFilms[r] = Unseen(fetched[r], films)
              /\ newFilms[r] # <<>>
        /\ EndedAtFilter(r) =>
              /\ Unseen(fetched[r], films) = <<>>
              /\ result[r] = [success |-> TRUE, newFilmsCount |-> 0, error |-> FALSE]
              /\ tried[r] = <<>>
              /\ attempts[r] = <<>>
              /\ writes[r] = 0
              /\ films = disk

\* a listing of two entries, the first of them already seen
C22_Witness ==
    \E r \in Runners :
        /\ pc[r] = "extract"
        /\ Len(fetched[r]) = 2
        /\ hasFilm(films, fetched[r][1])
        /\ newFilms[r] = <<fetched[r][2]>>

\* a listing whose entries are all seen ends the run at the filter
C22_WitnessAllSeen ==
    \E r \in Runners :
        /\ EndedAtFilter(r)
        /\ Len(fetched[r]) = 2
        /\ result[r].success

\* C23: within one run a detail fetch starts only from the listing or from a
\* delay and its completion leads into a delay; a publish attempt starts only
\* from a delay, never before every detail fetch of the run has finished, and
\* its completion (success or failure) leads into a delay unless it was the
\* last attempt of the run; each step completes at most one fetch or attempt.
C23_SequentialWithDelays ==
    [][\A r \in Runners :
          /\ (pc[r] # "extract" /\ pc'[r] = "extract") =>
                pc[r] \in {"listing", "extractDelay"}
          /\ (pc[r] # "done" /\ tried'[r] # tried[r]) =>
                /\ pc[r] = "extract"
                /\ \E f \in Ids : tried'[r] = Append(tried[r], f)
                /\ pc'[r] = "extractDelay"
          /\ (pc[r] # "publish" /\ pc'[r] = "publish") =>
                /\ pc[r] \in {"extractDelay", "publishDelay"}
                /\ tried[r] = newFilms[r]
                /\ pc[r] = "extractDelay" <=> attempts[r] = <<>>
          /\ (pc[r] # "done" /\ attempts'[r] # attempts[r]) =>
                /\ pc[r] = "publish"
                /\ tried[r] = newFilms[r]
                /\ \E f \in Ids : attempts'[r] = Append(attempts[r], f)
                /\ pc'[r] # "publish"
                /\ Len(attempts'[r]) < Len(details[r]) => pc'[r] = "publishDelay"
      ]_vars

\* the delay after a failed first publish attempt of a run that fetched two
\* detail pages
C23_Witness ==
    \E r \in Runners :
        /\ pc[r] = "publishDelay"
        /\ Len(tried[r]) = 2
        /\ Len(attempts[r]) = 1
        /\ failedCount[r] = 1

\* C24: a run issues no store write before its publish stage is over; the
\* first write carries the store with the whole batch appended, unpruned, and
\* is the only write for the batch; the prune and its write come only after
\* that write has succeeded, so a run issues at most two writes.
C24_OneBatchedWriteThenPrune ==
    \A r \in Runners :
        /\ writes[r] > 0 => (attempts[r] = details[r] /\ sentCount[r] > 0)
        /\ pc[r] = "addSave" =>
              /\ writes[r] = 1
              /\ snap[r] = disk \o appended[r]
              /\ films = snap[r]
              /\ Len(appended[r]) = sentCount[r]
        /\ pc[r] = "cleanupSave" =>
              /\ writes[r] = 2
              /\ LastN(disk, Len(appended[r])) = appended[r]
              /\ Len(disk) > maxTrackedFilms
              /\ films = Slice(disk, 0 - maxTrackedFilms)
              /\ snap[r] = films
        /\ writes[r] <= 2

\* two films published: one write in flight that carries both records
C24_Witness ==
    \E r \in Runners :
        /\ pc[r] = "addSave"
        /\ Len(appended[r]) = 2
        /\ writes[r] = 1

\* the prune, reached after the batch is on disk
C24_WitnessPrune ==
    \E r \in Runners :
        /\ pc[r] = "cleanupSave"
        /\ Len(appended[r]) = 2
        /\ Len(films) < Len(disk)

\* C25: every step leaves the Seen-Set as it is, or appends the records of
\* one run behind the existing ones (the step that ends a publish stage with
\* at least one success), or drops records from the front (the cleanup after
\* a batch write, when the set is over the cap); records already present keep
\* their content and their order.
C25_RecordsOnlyAppendedOrPruned ==
    [][\/ films' = films
       \/ \E r \in Runners :
             /\ pc[r] \in {"publish", "publishDelay"}
             /\ pc'[r] = "addSave"
             /\ pubBy'[r] # {}
             /\ appended'[r] # <<>>
             /\ films' = films \o appended'[r]
       \/ \E r \in Runners :
             /\ pc[r] = "addSave"
             /\ Len(films) > maxTrackedFilms
             /\ \E n \in 0..Len(films) : films' = LastN(films, n)
      ]_vars

\* a batch appended behind records that were already there
C25_Witness ==
    \E r \in Runners :
        /\ pc[r] = "addSave"
        /\ appended[r] # <<>>
        /\ Len(films) > Len(appended[r])
        /\ LastN(films, Len(appended[r])) = appended[r]

\* the result handed to the caller of a finished invocation
C26_ResultShape ==
    \A r \in Runners :
        pc[r] = "done" =>
            /\ result[r] # NoResult
            /\ result[r].success <=> ~result[r].error
            /\ result[r].error <=> writeFailed[r]
            /\ ~result[r].success => result[r].newFilmsCount = 0
            /\ listingFailed[r] => result[r].success

\* C26: every invocation of checkAndSendUpdates ends by returning a result,
\* also when the listing, a detail fetch, a publish or a store write fails;
\* success is false exactly when an error was caught, and newFilmsCount is 0
\* in every result with success false.
C26_AlwaysReturnsResult ==
    /\ []C26_ResultShape
    /\ \A r \in Runners : (pc[r] = "listing") ~> (pc[r] = "done")

\* a detail fetch failed, a publish failed, and the write of the prune was
\* rejected: the invocation still returned a result
C26_Witness ==
    \E r \in Runners :
        /\ pc[r] = "done"
        /\ writes[r] = 2
        /\ writeFailed[r]
        /\ failedCount[r] = 1
        /\ result[r] = [success |-> FALSE, newFilmsCount |-> 0, error |-> TRUE]

\* C27: in a finished run none of whose store writes failed, the number of
\* records appended to the Seen-Set, the number of successful publishes of
\* the run, sentCount and the reported newFilmsCount are the same number.
C27_AppendedCountIsSentCount ==
    \A r \in Runners :
        (pc[r] = "done" /\ ~writeFailed[r]) =>
            /\ Len(appended[r]) = sentCount[r]
            /\ Cardinality(pubBy[r]) = sentCount[r]
            /\ result[r].newFilmsCount = sentCount[r]
            /\ sentCount[r] + failedCount[r] = Len(attempts[r])

\* one publish failed and one succeeded
C27_Witness ==
    \E r \in Runners :
        /\ pc[r] = "done"
        /\ ~writeFailed[r]
        /\ failedCount[r] = 1
        /\ sentCount[r] = 1
        /\ Len(appended[r]) = 1

\* no write of r is in flight
NoWriteInFlight == \A r \in Runners : pc[r] \notin {"addSave", "cleanupSave"}

\* C28: after every store operation, failed or not, the in-memory Seen-Set
\* that hasFilm reads equals the contents last persisted; a failed write of
\* addFilms or cleanup leaves the in-memory set as it was before the call.
C28_MemoryIsLastPersisted ==
    NoWriteInFlight => films = disk

\* C29: as long as no publish of a run has succeeded, and in particular when
\* the run ends that way (empty listing, nothing new, nothing extracted, every
\* publish failed), the run has issued no store write, and the Seen-Set, the
\* store file and lastUpdate are as they were when the run started.
C29_NoSuccessNoWrite ==
    \A r \in Runners :
        (pc[r] # "idle" /\ pubBy[r] = {}) =>
            /\ writes[r] = 0
            /\ ~writeFailed[r]
            /\ lastUpdate = 0
            /\ films = disk
            /\ appended[r] = <<>>
            /\ pc[r] \notin {"addSave", "cleanupSave"}
            /\ pc[r] = "done" => result[r] = [success |-> TRUE, newFilmsCount |-> 0,
                                              error |-> FALSE]

\* a run whose two publish attempts both failed
C29_Witness ==
    \E r \in Runners :
        /\ pc[r] = "done"
        /\ Len(attempts[r]) = 2
        /\ failedCount[r] = 2
        /\ pubBy[r] = {}
        /\ writes[r] = 0

\* C30: at any time at most one puppeteer.launch is pending, at most one
\* launched browser exists, it is the one this.browser refers to, and every
\* page is on it.
C30_SingleBrowser ==
    /\ Cardinality({c \in Runners : cp[c] = "launch"}) <= 1
    /\ Cardinality(live) <= 1
    /\ live \subseteq {browser}
    /\ \A c \in Runners : page[c] # 0 => page[c] = browser

====
